---- MODULE Spec2Model ----
(***************************************************************************)
(* Heart-disease prediction pipeline: data preparation                     *)
(* (src/data_preprocessing.py), the training run (src/train.py) and the    *)
(* prediction service (src/serve.py).                                      *)
(*                                                                         *)
(* The training run and the service are two processes that share the      *)
(* models directory; the training run is modelled statement group by      *)
(* statement group so that the service can start and answer between them.  *)
(* The data preparation script is a third, independent program with its    *)
(* own specification (SpecData).                                           *)
(***************************************************************************)
EXTENDS Integers, Sequences, FiniteSets, TLC

VARIABLES
    \* ---- the models directory (shared files)
    models_dir,         \* file name -> [run, data]; run = 0: the file does not exist
    \* ---- the training process (train.py __main__)
    trainPc,            \* position of the training run
    run,                \* number of training runs started so far
    lr_metrics,         \* roc_auc of the linear model on the holdout (-1: none yet)
    rf_metrics,         \* roc_auc of the ensemble on the holdout (-1: none yet)
    scaler_calls,       \* this run's calls on the StandardScaler, in order
    \* ---- the service process (serve.py)
    servicePc,          \* "uninitialized" before the module-level load, "serving" after
    best_model_name,    \* module global read from best_model.txt at startup
    model,              \* module global: loaded model or None
    scaler,             \* module global: loaded scaler or None
    REQUEST_COUNT,      \* Counter api_requests_total
    REQUEST_LATENCY,    \* Histogram api_request_latency_seconds (number of observations)
    PREDICTION_COUNTER, \* Counter predictions_total, by label
    resp,               \* the last HTTP response
    y_proba,            \* history: the last predict_proba row, <<p(class 0), p(class 1)>>
    request_in_bounds,  \* history: the last /predict body met every declared bound
    \* ---- the data preparation script (data_preprocessing.py __main__)
    dataPc,             \* position of the script
    raw_df,             \* the frame download_data returned
    df,                 \* the frame clean_data returned
    clean_csv           \* data/heart_disease_clean.csv

trainVars == <<trainPc, run, lr_metrics, rf_metrics, scaler_calls>>
counterVars == <<REQUEST_COUNT, REQUEST_LATENCY, PREDICTION_COUNTER>>
globalVars == <<servicePc, best_model_name, model, scaler>>
serviceVars == <<globalVars, counterVars, resp, y_proba, request_in_bounds>>
dataVars == <<dataPc, raw_df, df, clean_csv>>
vars == <<models_dir, trainVars, serviceVars, dataVars>>

----------------------------------------------------------------------------
\* Bounds of the model.

\* training runs started in one behaviour
MaxRuns == 2
\* /predict requests that pass validation in one behaviour
MaxRequests == 2
\* ROC-AUC takes the values 0..AucLevels (k stands for k / AucLevels)
AucLevels == 1
\* probabilities take the values 0..ProbScale (k stands for k / ProbScale)
ProbScale == 2
\* rows of a downloaded dataset
MaxRows == 2

----------------------------------------------------------------------------
\* The models directory.

SCALER_PKL == "scaler.pkl"
LR_PKL == "logistic_regression.pkl"
RF_PKL == "random_forest.pkl"
BEST_MODEL_TXT == "best_model.txt"

FileNames == {SCALER_PKL, LR_PKL, RF_PKL, BEST_MODEL_TXT}

\* Python's None, and a file that does not exist.
None == [run |-> 0, data |-> ""]

Exists(dir, name) == name \in FileNames /\ dir[name] # None

\* f"{best_model_name}.pkl"
PklOf(name) == IF name = "" THEN ".pkl" ELSE
               IF name = "logistic_regression" THEN LR_PKL ELSE
               IF name = "random_forest" THEN RF_PKL ELSE "?.pkl"

\* joblib.dump(obj, path) / f.write(text): the file is replaced wholesale.
Dump(dir, name, r, data) == [dir EXCEPT ![name] = [run |-> r, data |-> data]]

----------------------------------------------------------------------------
\* train.py

\* The scaler calls of a prepare_features that fits on the holdout as well.
prepare_features_calls_refit ==
    << <<"fit", "train">>, <<"transform", "train">>,
       <<"fit", "test">>, <<"transform", "test">> >>

\* scaler.fit_transform(X_train); scaler.transform(X_test)
prepare_features_calls ==
    << <<"fit", "train">>, <<"transform", "train">>, <<"transform", "test">> >>

\* The state of the scaler after the given calls: the partition its mean and
\* standard deviation were last learned from ("" when it was never fitted).
RECURSIVE FittedOn(_)
FittedOn(calls) ==
    IF calls = << >> THEN ""
    ELSE IF calls[Len(calls)][1] = "fit" THEN calls[Len(calls)][2]
    ELSE FittedOn(SubSeq(calls, 1, Len(calls) - 1))

\* A selector that lets the ensemble win ties.
select_best_ge(lr_auc, rf_auc) ==
    IF rf_auc >= lr_auc THEN "random_forest" ELSE "logistic_regression"

\* 'random_forest' if rf_metrics['roc_auc'] > lr_metrics['roc_auc'] else 'logistic_regression'
select_best(lr_auc, rf_auc) ==
    IF rf_auc > lr_auc THEN "random_forest" ELSE "logistic_regression"

RunOver == trainPc \in {"idle", "done", "aborted"}

\* python train.py: up to os.makedirs('models', exist_ok=True)
StartRun ==
    /\ RunOver
    /\ run < MaxRuns
    /\ run' = run + 1
    /\ trainPc' = "started"
    /\ lr_metrics' = -1
    /\ rf_metrics' = -1
    /\ scaler_calls' = << >>
    /\ UNCHANGED <<models_dir, serviceVars, dataVars>>

\* prepare_features(df): the fit raises (nothing dumped), or the scaler is
\* fitted on the training partition, applied to both partitions and dumped.
prepare_features ==
    /\ trainPc = "started"
    /\ \/ /\ scaler_calls' = << <<"fit", "train">> >>
          /\ trainPc' = "aborted"
          /\ UNCHANGED models_dir
       \/ /\ scaler_calls' = prepare_features_calls
          /\ models_dir' = Dump(models_dir, SCALER_PKL, run,
                                FittedOn(prepare_features_calls))
          /\ trainPc' = "prepared"
    /\ UNCHANGED <<run, lr_metrics, rf_metrics, serviceVars, dataVars>>

\* train_logistic_regression(...): fit, cross-validate and evaluate; any of
\* them may raise, which ends the run before the dump.
train_logistic_regression ==
    /\ trainPc = "prepared"
    /\ \/ /\ trainPc' = "aborted"
          /\ UNCHANGED <<models_dir, lr_metrics>>
       \/ /\ \E auc \in 0..AucLevels : lr_metrics' = auc
          /\ models_dir' = Dump(models_dir, LR_PKL, run, "logistic_regression")
          /\ trainPc' = "lr_trained"
    /\ UNCHANGED <<run, rf_metrics, scaler_calls, serviceVars, dataVars>>

\* train_random_forest(...)
train_random_forest ==
    /\ trainPc = "lr_trained"
    /\ \/ /\ trainPc' = "aborted"
          /\ UNCHANGED <<models_dir, rf_metrics>>
       \/ /\ \E auc \in 0..AucLevels : rf_metrics' = auc
          /\ models_dir' = Dump(models_dir, RF_PKL, run, "random_forest")
          /\ trainPc' = "rf_trained"
    /\ UNCHANGED <<run, lr_metrics, scaler_calls, serviceVars, dataVars>>

\* best_model_name = ...; open('models\\best_model.txt', 'w').write(best_model_name)
write_best_model ==
    /\ trainPc = "rf_trained"
    /\ models_dir' = Dump(models_dir, BEST_MODEL_TXT, run,
                          select_best(lr_metrics, rf_metrics))
    /\ trainPc' = "done"
    /\ UNCHANGED <<run, lr_metrics, rf_metrics, scaler_calls,
                   serviceVars, dataVars>>

----------------------------------------------------------------------------
\* serve.py

FieldNames == {"age", "sex", "cp", "trestbps", "chol", "fbs", "restecg",
               "thalach", "exang", "oldpeak", "slope", "ca", "thal"}

\* HeartDiseaseInput: Field(..., ge=.., le=..) of every field
FieldGe == [f \in FieldNames |-> 0]
FieldLe == [age |-> 120, sex |-> 1, cp |-> 3, trestbps |-> 300, chol |-> 600,
            fbs |-> 1, restecg |-> 2, thalach |-> 250, exang |-> 1,
            oldpeak |-> 10, slope |-> 2, ca |-> 4, thal |-> 3]

\* The request of tests/test_api.py (oldpeak 2.3 taken as 2).
SamplePayload == [age |-> 63, sex |-> 1, cp |-> 3, trestbps |-> 145, chol |-> 233,
                  fbs |-> 1, restecg |-> 0, thalach |-> 150, exang |-> 0,
                  oldpeak |-> 2, slope |-> 0, ca |-> 0, thal |-> 1]

\* Request bodies: the sample, every field at its lower bound, every field at
\* its upper bound, and the sample with one field just outside one of its bounds.
Inputs ==
    {SamplePayload, FieldGe, FieldLe} \cup
    UNION { { [SamplePayload EXCEPT ![f] = v] : v \in {FieldGe[f] - 1, FieldLe[f] + 1} } :
            f \in FieldNames }

\* The declared bounds of the 13 fields, read off the table.
DeclaredBoundsOk(input_data) ==
    \A f \in FieldNames : input_data[f] \in FieldGe[f]..FieldLe[f]

\* A validation that forgot the upper bounds.
ValidateGeOnly(input_data) ==
    \A f \in FieldNames : FieldGe[f] <= input_data[f]

\* pydantic's validation of the request body against HeartDiseaseInput
Validate(input_data) ==
    \A f \in FieldNames : FieldGe[f] <= input_data[f] /\ input_data[f] <= FieldLe[f]

\* The module-level try/except: any exception leaves model, scaler = None, None.
LoadArtifacts(dir) ==
    IF ~Exists(dir, BEST_MODEL_TXT)
    THEN [best_model_name |-> "", model |-> None, scaler |-> None]
    ELSE LET name == dir[BEST_MODEL_TXT].data
         IN  IF Exists(dir, PklOf(name)) /\ Exists(dir, SCALER_PKL)
             THEN [best_model_name |-> name,
                   model  |-> dir[PklOf(name)],
                   scaler |-> dir[SCALER_PKL]]
             ELSE [best_model_name |-> name, model |-> None, scaler |-> None]

NoResponse == [op |-> "none", status |-> 0, prediction |-> -1, confidence |-> -1,
               risk_level |-> "", model_used |-> ""]

ErrorResponse(op, status) == [NoResponse EXCEPT !.op = op, !.status = status]

\* Importing serve.py: the module-level load.
Startup ==
    /\ servicePc = "uninitialized"
    /\ LET loaded == LoadArtifacts(models_dir)
       IN  /\ best_model_name' = loaded.best_model_name
           /\ model' = loaded.model
           /\ scaler' = loaded.scaler
    /\ servicePc' = "serving"
    /\ UNCHANGED <<models_dir, trainVars, counterVars, resp, y_proba,
                   request_in_bounds, dataVars>>

\* A health check that never looks at the model.
health_response_always_ok(m) == [NoResponse EXCEPT !.op = "health", !.status = 200]

\* if model is None: raise HTTPException(503); return {"status": "healthy", ...}
health_response(m) ==
    IF m = None
    THEN ErrorResponse("health", 503)
    ELSE [NoResponse EXCEPT !.op = "health", !.status = 200]

\* GET /health
health_check ==
    /\ servicePc = "serving"
    /\ resp' = health_response(model)
    /\ UNCHANGED <<models_dir, trainVars, globalVars, counterVars, y_proba,
                   request_in_bounds, dataVars>>

\* A risk label that is inverted.
risk_level_inverted(prediction) == IF prediction = 0 THEN "High" ELSE "Low"

\* "High" if prediction == 1 else "Low"
risk_level_of(prediction) == IF prediction = 1 THEN "High" ELSE "Low"

\* model.predict(features_scaled)[0]: the class with the larger probability,
\* class 0 on a tie (both classifiers).
model_predict(proba) == IF proba[2] > proba[1] THEN 1 ELSE 0

\* A body that counts the prediction before it has been computed.
predict_body_counts_first(proba) ==
    LET prediction == model_predict(proba)
        counted == [count |-> REQUEST_COUNT + 1,
                    latency |-> REQUEST_LATENCY + 1,
                    predictions |-> [PREDICTION_COUNTER EXCEPT
                                        ![prediction] = @ + 1]]
    IN  IF scaler = None \/ model = None \/ ~Exists(models_dir, BEST_MODEL_TXT)
        THEN counted @@ [resp |-> ErrorResponse("predict", 500)]
        ELSE counted @@
             [resp |-> [op |-> "predict", status |-> 200,
                        prediction |-> prediction,
                        confidence |-> proba[prediction + 1],
                        risk_level |-> risk_level_of(prediction),
                        model_used |-> models_dir[BEST_MODEL_TXT].data]]

\* What the body of predict() leaves behind, given the predict_proba row the
\* model would produce: the counters and the response. The classifier is a
\* fitted library object: on a validated row of 13 numbers it returns a row
\* of probabilities and does not raise.
predict_body(proba) ==
    LET prediction == model_predict(proba)
        failed == [count |-> REQUEST_COUNT + 1,
                   latency |-> REQUEST_LATENCY,
                   predictions |-> PREDICTION_COUNTER,
                   resp |-> ErrorResponse("predict", 500)]
        counted == [count |-> REQUEST_COUNT + 1,
                    latency |-> REQUEST_LATENCY + 1,
                    predictions |-> [PREDICTION_COUNTER EXCEPT
                                        ![prediction] = @ + 1]]
    IN  IF scaler = None \/ model = None
        THEN \* scaler.transform / model.predict on None raises AttributeError
             failed
        ELSE IF ~Exists(models_dir, BEST_MODEL_TXT)
        THEN \* open(best_model.txt) raises after the counters were incremented
             counted @@ [resp |-> ErrorResponse("predict", 500)]
        ELSE counted @@
             [resp |-> [op |-> "predict", status |-> 200,
                        prediction |-> prediction,
                        confidence |-> proba[prediction + 1],
                        risk_level |-> risk_level_of(prediction),
                        model_used |-> models_dir[BEST_MODEL_TXT].data]]

\* predict_proba rows: two probabilities that sum to one.
ProbaRows == { <<ProbScale - p1, p1>> : p1 \in 0..ProbScale }

\* POST /predict
predict(input_data) ==
    /\ servicePc = "serving"
    /\ request_in_bounds' = DeclaredBoundsOk(input_data)
    /\ IF ~Validate(input_data)
       THEN \* rejected by the framework before the handler runs
            /\ resp' = ErrorResponse("predict", 422)
            /\ UNCHANGED <<counterVars, y_proba>>
       ELSE /\ REQUEST_COUNT < MaxRequests
            /\ \E proba \in ProbaRows :
                 LET out == predict_body(proba)
                 IN  /\ y_proba' = IF out.resp.status = 200 THEN proba ELSE y_proba
                     /\ REQUEST_COUNT' = out.count
                     /\ REQUEST_LATENCY' = out.latency
                     /\ PREDICTION_COUNTER' = out.predictions
                     /\ resp' = out.resp
    /\ UNCHANGED <<models_dir, trainVars, globalVars, dataVars>>

----------------------------------------------------------------------------
\* data_preprocessing.py

Columns == FieldNames \cup {"target"}

NA == -1

\* The row of tests/test_preprocessing.py with the given age and target and,
\* unless naCol is "none", a missing value in column naCol.
MkRow(age, naCol, target) ==
    LET full == [c \in Columns |->
                    IF c = "age" THEN age
                    ELSE IF c = "target" THEN target
                    ELSE IF c = "trestbps" THEN 120
                    ELSE IF c = "chol" THEN 200
                    ELSE IF c = "thalach" THEN 150
                    ELSE 1]
    IN  [c \in Columns |-> IF c = naCol THEN NA ELSE full[c]]

Rows == { MkRow(age, naCol, target) :
            age \in {50, 60}, naCol \in {"none", "age", "ca", "thal", "target"},
            target \in {0, 1, 2} }

Datasets == UNION { [1..n -> Rows] : n \in 0..MaxRows }

\* df.dropna(): the rows without a missing value, in order
RECURSIVE dropna(_)
dropna(frame) ==
    IF frame = << >> THEN << >>
    ELSE LET rest == dropna(Tail(frame))
         IN  IF \E c \in Columns : Head(frame)[c] = NA
             THEN rest
             ELSE <<Head(frame)>> \o rest

\* A binarisation with the wrong threshold.
binarize_gt1(target) == IF target > 1 THEN 1 ELSE 0

\* (df['target'] > 0).astype(int)
binarize(target) == IF target > 0 THEN 1 ELSE 0

\* clean_data(df), the frame it returns
clean_frame(frame) ==
    LET kept == dropna(frame)
    IN  [i \in 1..Len(kept) |-> [kept[i] EXCEPT !["target"] = binarize(@)]]

\* download_data(): whatever the source serves
download_data ==
    /\ dataPc = "start"
    /\ \E d \in Datasets : raw_df' = d
    /\ dataPc' = "downloaded"
    /\ UNCHANGED <<df, clean_csv, models_dir, trainVars, serviceVars>>

\* clean_data(df): returns the cleaned frame and writes it to the csv
clean_data ==
    /\ dataPc = "downloaded"
    /\ df' = clean_frame(raw_df)
    /\ clean_csv' = clean_frame(raw_df)
    /\ dataPc' = "cleaned"
    /\ UNCHANGED <<raw_df, models_dir, trainVars, serviceVars>>

----------------------------------------------------------------------------
\* Specifications.

Init ==
    /\ models_dir = [n \in FileNames |-> None]
    /\ trainPc = "idle"
    /\ run = 0
    /\ lr_metrics = -1
    /\ rf_metrics = -1
    /\ scaler_calls = << >>
    /\ servicePc = "uninitialized"
    /\ best_model_name = ""
    /\ model = None
    /\ scaler = None
    /\ REQUEST_COUNT = 0
    /\ REQUEST_LATENCY = 0
    /\ PREDICTION_COUNTER = [c \in {0, 1} |-> 0]
    /\ resp = NoResponse
    /\ y_proba = <<0, 0>>
    /\ request_in_bounds = FALSE
    /\ dataPc = "start"
    /\ raw_df = << >>
    /\ df = << >>
    /\ clean_csv = << >>

\* The training runs and the service.
Next ==
    \/ StartRun
    \/ prepare_features
    \/ train_logistic_regression
    \/ train_random_forest
    \/ write_best_model
    \/ Startup
    \/ health_check
    \/ \E input_data \in Inputs : predict(input_data)

Spec == Init /\ [][Next]_vars

\* The data preparation script.
NextData ==
    \/ download_data
    \/ clean_data

SpecData == Init /\ [][NextData]_vars

----------------------------------------------------------------------------
\* Properties.

ServiceLoaded == model # None /\ scaler # None

\* A step of the service that answers a POST /predict.
IsPredictStep ==
    /\ servicePc = "serving"
    /\ resp'.op = "predict"
    /\ UNCHANGED trainVars

\* C1: on a service whose startup load failed, every POST /predict is
\* answered with 503 (stated for the request bodies that pass validation: the
\* ones the handler itself answers).
C1_UnreadyPredictIs503 ==
    (servicePc = "serving" /\ ~ServiceLoaded /\ resp.op = "predict" /\ request_in_bounds)
        => resp.status = 503

\* C2: GET /health answers 200 exactly when both the model and the scaler are
\* loaded and 503 otherwise, and changes nothing but the response.
C2_HealthIffLoaded ==
    [][health_check =>
          /\ resp'.op = "health"
          /\ resp'.status = (IF ServiceLoaded THEN 200 ELSE 503)
          /\ UNCHANGED <<models_dir, globalVars, counterVars>>]_vars

C2_Witness ==
    /\ resp.op = "health"
    /\ resp.status = 200
    /\ ServiceLoaded
    /\ REQUEST_COUNT > 0

\* C3: a finished run has persisted "random_forest" exactly when the ensemble's
\* ROC-AUC is strictly greater than the linear model's, and
\* "logistic_regression" otherwise (so also on a tie).
C3_SelectorRule ==
    trainPc = "done" =>
        LET token == models_dir[BEST_MODEL_TXT]
        IN  /\ token.run = run
            /\ token.data \in {"random_forest", "logistic_regression"}
            /\ token.data = "random_forest" <=> rf_metrics > lr_metrics
            /\ rf_metrics = lr_metrics => token.data = "logistic_regression"

C3_Witness ==
    /\ trainPc = "done"
    /\ rf_metrics = lr_metrics
    /\ models_dir[BEST_MODEL_TXT].data = "logistic_regression"

\* C4: a run that aborted has written none of the persisted artifacts, and a
\* loaded service holds a scaler and a model of the same run.
C4_AbortPersistsNothing ==
    /\ trainPc = "aborted" => \A f \in FileNames : models_dir[f].run # run
    /\ ServiceLoaded => model.run = scaler.run

\* C5: a POST /predict with a field outside its declared bound is answered
\* with 422 and leaves every counter and the histogram unchanged.
C5_InvalidInputIs422 ==
    [][(IsPredictStep /\ ~request_in_bounds') =>
              /\ resp'.op = "predict"
              /\ resp'.status = 422
              /\ UNCHANGED <<REQUEST_COUNT, REQUEST_LATENCY, PREDICTION_COUNTER>>]_vars

C5_Witness ==
    /\ resp.op = "predict"
    /\ ~request_in_bounds
    /\ resp.status = 422
    /\ REQUEST_COUNT > 0
    /\ REQUEST_LATENCY > 0

\* C6: clean_data returns exactly the rows without a missing value, in their
\* original order, each with a label in {0,1} that is 1 iff the raw label > 0.
C6_CleanContract ==
    dataPc = "cleaned" =>
        LET Complete(r) == \A c \in Columns : r[c] # NA
            kept == SelectSeq(raw_df, Complete)
        IN  /\ Len(df) = Len(kept)
            /\ \A i \in 1..Len(kept) :
                  /\ \A c \in FieldNames : df[i][c] = kept[i][c]
                  /\ df[i]["target"] \in {0, 1}
                  /\ df[i]["target"] = 1 <=> kept[i]["target"] > 0

C6_Witness ==
    /\ dataPc = "cleaned"
    /\ Len(raw_df) = 2
    /\ raw_df[1]["ca"] = NA
    /\ raw_df[2]["target"] = 2
    /\ Len(df) = 1
    /\ df[1]["target"] = 1

\* C7: on a loaded service a POST /predict within the declared bounds returns
\* 200 with prediction in {0,1}, risk_level "High" iff prediction = 1 and "Low"
\* otherwise, and confidence the model's probability of the predicted class.
C7_ValidPredictResponse ==
    [][(IsPredictStep /\ request_in_bounds' /\ ServiceLoaded) =>
              /\ resp'.op = "predict"
              /\ resp'.status = 200
              /\ resp'.prediction \in {0, 1}
              /\ resp'.risk_level = "High" <=> resp'.prediction = 1
              /\ resp'.risk_level = "Low" <=> resp'.prediction = 0
              /\ resp'.confidence = y_proba'[resp'.prediction + 1]]_vars

C7_Witness ==
    /\ resp.op = "predict"
    /\ request_in_bounds
    /\ ServiceLoaded
    /\ resp.status = 200
    /\ resp.prediction = 1
    /\ resp.risk_level = "High"
    /\ resp.confidence = y_proba[2]
    /\ resp.confidence > 0

FitCalls == { i \in DOMAIN scaler_calls : scaler_calls[i][1] = "fit" }

C9_ModelUsedIsLoadedModel ==
    (resp.op = "predict" /\ resp.status = 200) =>
        /\ resp.model_used = best_model_name
        /\ resp.model_used = model.data

\* C10: the prediction counter and the latency histogram change only in a
\* /predict request that returns 200; a request answered with an error leaves
\* both unchanged.
C10_CountersOnlyOnSuccess ==
    [][/\ (PREDICTION_COUNTER' # PREDICTION_COUNTER \/ REQUEST_LATENCY' # REQUEST_LATENCY)
            => (resp'.op = "predict" /\ resp'.status = 200)
       /\ (IsPredictStep /\ resp'.status # 200)
                => UNCHANGED <<PREDICTION_COUNTER, REQUEST_LATENCY>>]_vars

C10_Witness ==
    /\ resp.op = "predict"
    /\ resp.status = 500
    /\ REQUEST_COUNT = 2
    /\ REQUEST_LATENCY = 0
    /\ PREDICTION_COUNTER = [c \in {0, 1} |-> 0]

====
